---- MODULE Spec2Model ----
(***************************************************************************)
(* Model of the Shipi18n API client (src/src/index.ts): translateJSON,     *)
(* translateText, getLanguages, the transport call (request) with its      *)
(* error classification, the regional-language resolver and the fallback   *)
(* reconciliation pass (applyFallbacks, findMissingKeys, getNestedValue,   *)
(* setNestedValue).                                                        *)
(*                                                                         *)
(* JavaScript objects live in a heap of mutable objects addressed by       *)
(* reference, so that the shallow copies made by the spread operator and   *)
(* the in-place writes of setNestedValue share nested objects exactly as   *)
(* they do in the program.                                                 *)
(*                                                                         *)
(* An object key is a non-empty sequence of atoms: <<"a">> is the key "a", *)
(* <<"g","y">> is the single key "g.y" (a key that contains a dot).  A     *)
(* dot-path is a sequence of atoms: joining a prefix and a key with "."    *)
(* concatenates them, and splitting a path on "." yields one one-atom key  *)
(* per atom, so the key boundaries are lost exactly as in the program.     *)
(* A language tag is the sequence of its subtags: <<"pt","BR">> is "pt-BR".*)
(*                                                                         *)
(* Spec runs one translateJSON invocation over wide responses, ApiSpec the *)
(* three public methods against a transport that may fail, HelperSpec the  *)
(* private helpers on their own, PairSpec two invocations in flight        *)
(* together on one client.                                                 *)
(***************************************************************************)
EXTENDS Integers, Sequences, FiniteSets, TLC

\* ------------------------------------------------------------------ bounds
MaxTargets == 3

\* ------------------------------------------------------------ JS values
\* A runtime value: a string, null, undefined, or a reference to a heap object.
Str(x) == [t |-> "str", s |-> x, r |-> 0]
Null == [t |-> "null", s |-> "", r |-> 0]
Undefined == [t |-> "undef", s |-> "", r |-> 0]
Ref(n) == [t |-> "ref", s |-> "", r |-> n]

\* A JSON tree as the caller writes it or as it arrives on the wire.
TStr(x) == [t |-> "str", s |-> x, kids |-> <<>>]
TNull == [t |-> "null", s |-> "", kids |-> <<>>]
TAbsent == [t |-> "undef", s |-> "", kids |-> <<>>]
TDoc(f) == [t |-> "doc", s |-> "", kids |-> f]
TArr(f) == [t |-> "arr", s |-> "", kids |-> f]

EmptyFcn == [k \in {} |-> Undefined]

\* Keys in the order Object.keys enumerates them.
KeyOrder == << <<"a">>, <<"g">>, <<"g", "y">>, <<"x">>, <<"y">>, <<"0">>, <<"1">> >>

KeysOf(f) == SelectSeq(KeyOrder, LAMBDA k : k \in DOMAIN f)

\* typeof v === 'object' (true of null as well)
TypeofObject(v) == v.t \in {"ref", "null"}

\* JS truthiness
Truthy(v) == v.t = "ref" \/ (v.t = "str" /\ v.s # "")

IsArray(heap, v) == v.t = "ref" /\ heap[v.r].arr

\* Object.keys(v) for an object
ObjectKeys(heap, v) == KeysOf(heap[v.r].props)

\* key in obj
HasKey(heap, v, key) == key \in DOMAIN heap[v.r].props

\* obj[key]
GetProp(heap, v, key) ==
  IF v.t = "ref" /\ HasKey(heap, v, key) THEN heap[v.r].props[key] ELSE Undefined

\* obj[key] = value
SetProp(heap, v, key, value) ==
  [heap EXCEPT ![v.r].props =
     [k \in (DOMAIN heap[v.r].props) \cup {key} |->
        IF k = key THEN value ELSE heap[v.r].props[k]]]

\* a new object literal
NewObject(heap, isArr, props) == Append(heap, [arr |-> isArr, props |-> props])

\* { ...v }: a new object with the own properties of v (shallow)
Spread(heap, v) == NewObject(heap, FALSE, heap[v.r].props)

\* fullKey = prefix ? `${prefix}.${key}` : key
JoinPath(prefix, key) == prefix \o key

\* path.split('.')
SplitPath(path) == [i \in 1..Len(path) |-> << path[i] >>]

\* ------------------------------------------------- decoding JSON trees
RECURSIVE Load(_, _)
RECURSIVE LoadKids(_, _, _, _)

\* Builds the objects of a tree in the heap; gives the new heap and the value.
Load(heap, tree) ==
  IF tree.t = "str" THEN [heap |-> heap, val |-> Str(tree.s)]
  ELSE IF tree.t = "null" THEN [heap |-> heap, val |-> Null]
  ELSE IF tree.t = "undef" THEN [heap |-> heap, val |-> Undefined]
  ELSE LET kids == LoadKids(heap, tree.kids, KeysOf(tree.kids), EmptyFcn)
           h2 == NewObject(kids.heap, tree.t = "arr", kids.props)
       IN [heap |-> h2, val |-> Ref(Len(h2))]

LoadKids(heap, kids, keys, props) ==
  IF keys = <<>> THEN [heap |-> heap, props |-> props]
  ELSE LET k == Head(keys)
           one == Load(heap, kids[k])
       IN LoadKids(one.heap, kids, Tail(keys),
                   [q \in (DOMAIN props) \cup {k} |-> IF q = k THEN one.val ELSE props[q]])

\* The tree a value denotes in a heap (what JSON.stringify / toEqual see).
RECURSIVE Deref(_, _)
Deref(heap, v) ==
  IF v.t = "str" THEN TStr(v.s)
  ELSE IF v.t = "null" THEN TNull
  ELSE IF v.t = "undef" THEN TAbsent
  ELSE [t |-> IF heap[v.r].arr THEN "arr" ELSE "doc", s |-> "",
        kids |-> [k \in DOMAIN heap[v.r].props |-> Deref(heap, heap[v.r].props[k])]]

\* ------------------------------------------------ nested-path accessor
RECURSIVE GetNestedFrom(_, _, _, _)
GetNestedFrom(heap, current, keys, i) ==
  IF i > Len(keys) THEN current
  ELSE IF Truthy(current) /\ TypeofObject(current) /\ HasKey(heap, current, keys[i])
       THEN GetNestedFrom(heap, GetProp(heap, current, keys[i]), keys, i + 1)
       ELSE GetNestedFrom(heap, Undefined, keys, i + 1)

getNestedValue(heap, obj, path) == GetNestedFrom(heap, obj, SplitPath(path), 1)

RECURSIVE SetNestedFrom(_, _, _, _, _)
\* The walk of setNestedValue from keys[i]; threw is TRUE when the walk
\* reaches null (typeof null is 'object', and `key in null` or an assignment
\* to a property of null raises TypeError).
SetNestedFrom(heap, current, keys, i, value) ==
  IF current.t # "ref" THEN [heap |-> heap, threw |-> TRUE]
  ELSE IF i = Len(keys)
       THEN [heap |-> SetProp(heap, current, keys[i], value), threw |-> FALSE]
       ELSE IF ~HasKey(heap, current, keys[i]) \/ ~TypeofObject(GetProp(heap, current, keys[i]))
            THEN LET h1 == NewObject(heap, FALSE, EmptyFcn)
                     h2 == SetProp(h1, current, keys[i], Ref(Len(h1)))
                 IN SetNestedFrom(h2, Ref(Len(h1)), keys, i + 1, value)
            ELSE SetNestedFrom(heap, GetProp(heap, current, keys[i]), keys, i + 1, value)

setNestedValue(heap, obj, path, value) == SetNestedFrom(heap, obj, SplitPath(path), 1, value)

\* --------------------------------------------------- missing-key detector
RECURSIVE findMissingKeys(_, _, _, _)
RECURSIVE FindMissingFrom(_, _, _, _, _)

\* Variant: the candidate is looked up by the full path instead of the key.
CandidateValue_ByFullKey(heap, translation, key, fullKey) == GetProp(heap, translation, fullKey)

\* translationValue = translation[key] (line 451)
CandidateValue(heap, translation, key, fullKey) == GetProp(heap, translation, key)

FindMissingFrom(heap, source, translation, prefix, keys) ==
  IF keys = <<>> THEN <<>>
  ELSE LET key == Head(keys)
           fullKey == JoinPath(prefix, key)
           sourceValue == GetProp(heap, source, key)
           translationValue == CandidateValue(heap, translation, key, fullKey)
           here ==
             IF translationValue.t \in {"undef", "null"} \/ translationValue = Str("")
             THEN << fullKey >>
             ELSE IF /\ TypeofObject(sourceValue)
                     /\ sourceValue.t # "null"
                     /\ ~IsArray(heap, sourceValue)
                     /\ TypeofObject(translationValue)
                     /\ translationValue.t # "null"
                  THEN findMissingKeys(heap, sourceValue, translationValue, fullKey)
                  ELSE <<>>
       IN here \o FindMissingFrom(heap, source, translation, prefix, Tail(keys))

findMissingKeys(heap, source, translation, prefix) ==
  FindMissingFrom(heap, source, translation, prefix, ObjectKeys(heap, source))

\* ------------------------------------------------ regional-language resolver
\* lang.includes('-')
HasHyphen(lang) == Len(lang) > 1

\* Variant: the tag is not split, the whole tag is taken as its base.
BaseOf_Whole(lang) == lang

\* lang.split('-')[0]
BaseOf(lang) == << lang[1] >>

\* processedTargets.includes(x) / targetLanguages.includes(x)
Includes(seq, x) == \E i \in 1..Len(seq) : seq[i] = x

\* Variant: the base is added without looking at the requested list.
BaseWanted_IgnoresTargets(targets, added, baseLang) == baseLang \notin added

\* !baseLanguagesAdded.has(baseLang) && !targetLanguages.includes(baseLang)
BaseWanted(targets, added, baseLang) == baseLang \notin added /\ ~Includes(targets, baseLang)

RECURSIVE ProcessFrom(_, _, _, _)
\* The loop of processRegionalLanguages from targetLanguages[i];
\* acc = [processedTargets, regionalMap, baseLanguagesAdded].
ProcessFrom(targets, regional, i, acc) ==
  IF i > Len(targets) THEN acc
  ELSE LET lang == targets[i]
           isRegional == HasHyphen(lang) /\ regional
           baseLang == BaseOf(lang)
           addBase == isRegional /\ BaseWanted(targets, acc.baseLanguagesAdded, baseLang)
           map1 == IF isRegional
                   THEN [l \in (DOMAIN acc.regionalMap) \cup {lang} |->
                           IF l = lang THEN baseLang ELSE acc.regionalMap[l]]
                   ELSE acc.regionalMap
           pt1 == IF addBase THEN Append(acc.processedTargets, baseLang)
                  ELSE acc.processedTargets
           added1 == IF addBase THEN acc.baseLanguagesAdded \cup {baseLang}
                     ELSE acc.baseLanguagesAdded
           pt2 == IF ~Includes(pt1, lang) THEN Append(pt1, lang) ELSE pt1
       IN ProcessFrom(targets, regional, i + 1,
                      [processedTargets |-> pt2, regionalMap |-> map1,
                       baseLanguagesAdded |-> added1])

processRegionalLanguages(targets, regional) ==
  ProcessFrom(targets, regional, 1,
              [processedTargets |-> <<>>, regionalMap |-> EmptyFcn,
               baseLanguagesAdded |-> {}])

\* ------------------------------------------------ fallback reconciliation
\* The report as constructed at the start of applyFallbacks.
NewFallbackInfo ==
  [used |-> FALSE, languagesFallbackToSource |-> <<>>,
   regionalFallbacks |-> EmptyFcn, keysFallback |-> EmptyFcn]

\* !translation || Object.keys(translation).length === 0
MissingOrEmpty(heap, v) == ~Truthy(v) \/ (v.t = "ref" /\ ObjectKeys(heap, v) = <<>>)

\* record[key] = value on a plain record held outside the heap
Put(f, key, value) == [k \in (DOMAIN f) \cup {key} |-> IF k = key THEN value ELSE f[k]]

RECURSIVE FillKeys(_, _, _, _, _, _, _, _)
RECURSIVE FillKeys_IntoSource(_, _, _, _, _, _, _, _)
\* Variant: the value is written into the source document instead of the
\* translation.
FillKeys_IntoSource(st, sourceContent, lang, translation, missingKeys, i, regionalFallback, regionalMap) ==
  IF i > Len(missingKeys) \/ st.threw THEN st
  ELSE LET key == missingKeys[i]
           fallbackValue == getNestedValue(st.heap, sourceContent, key)
           tryRegional == regionalFallback /\ lang \in DOMAIN regionalMap
           baseTranslation == IF tryRegional THEN st.result[regionalMap[lang]] ELSE Undefined
           baseValue == IF tryRegional /\ Truthy(baseTranslation)
                        THEN getNestedValue(st.heap, baseTranslation, key)
                        ELSE Undefined
           chosen == IF tryRegional /\ baseValue # Undefined THEN baseValue ELSE fallbackValue
           set == setNestedValue(st.heap, sourceContent, key, chosen)
           st1 == IF chosen # Undefined
                  THEN [st EXCEPT !.heap = set.heap, !.threw = set.threw]
                  ELSE st
       IN FillKeys_IntoSource(st1, sourceContent, lang, translation, missingKeys, i + 1,
                              regionalFallback, regionalMap)

\* The loop over missingKeys (lines 406-425) from missingKeys[i];
\* st = [heap, result, info, threw].
FillKeys(st, sourceContent, lang, translation, missingKeys, i, regionalFallback, regionalMap) ==
  IF i > Len(missingKeys) \/ st.threw THEN st
  ELSE LET key == missingKeys[i]
           fallbackValue == getNestedValue(st.heap, sourceContent, key)
           tryRegional == regionalFallback /\ lang \in DOMAIN regionalMap
           baseTranslation == IF tryRegional THEN st.result[regionalMap[lang]] ELSE Undefined
           baseValue == IF tryRegional /\ Truthy(baseTranslation)
                        THEN getNestedValue(st.heap, baseTranslation, key)
                        ELSE Undefined
           chosen == IF tryRegional /\ baseValue # Undefined THEN baseValue ELSE fallbackValue
           set == setNestedValue(st.heap, translation, key, chosen)
           st1 == IF chosen # Undefined
                  THEN [st EXCEPT !.heap = set.heap, !.threw = set.threw]
                  ELSE st
       IN FillKeys(st1, sourceContent, lang, translation, missingKeys, i + 1,
                   regionalFallback, regionalMap)

\* Variant: the regional branch records the pair but does not set used.
RecordRegional_NoUsed(info, lang, baseLang) ==
  [info EXCEPT !.regionalFallbacks = Put(info.regionalFallbacks, lang, baseLang)]

\* fallbackInfo.used = true; fallbackInfo.regionalFallbacks[lang] = baseLang
RecordRegional(info, lang, baseLang) ==
  [info EXCEPT !.used = TRUE, !.regionalFallbacks = Put(info.regionalFallbacks, lang, baseLang)]

\* fallbackInfo.used = true; fallbackInfo.languagesFallbackToSource.push(lang)
RecordSource(info, lang) ==
  [info EXCEPT !.used = TRUE,
               !.languagesFallbackToSource = Append(info.languagesFallbackToSource, lang)]

\* fallbackInfo.used = true; fallbackInfo.keysFallback[lang] = missingKeys
RecordKeys(info, lang, missingKeys) ==
  [info EXCEPT !.used = TRUE, !.keysFallback = Put(info.keysFallback, lang, missingKeys)]

\* Variant: the base document is stored itself instead of a copy of it.
TakeRegional_Alias(st, lang, baseLang) ==
  [st EXCEPT !.result = Put(st.result, lang, st.result[baseLang]),
             !.info = RecordRegional(st.info, lang, baseLang)]

\* result[lang] = { ...baseTranslation } and its record in the report
TakeRegional(st, lang, baseLang) ==
  LET h == Spread(st.heap, st.result[baseLang])
  IN [st EXCEPT !.heap = h,
                !.result = Put(st.result, lang, Ref(Len(h))),
                !.info = RecordRegional(st.info, lang, baseLang)]

\* result[lang] = { ...sourceContent } and its record in the report
TakeSource(st, sourceContent, lang) ==
  LET h == Spread(st.heap, sourceContent)
  IN [st EXCEPT !.heap = h,
                !.result = Put(st.result, lang, Ref(Len(h))),
                !.info = RecordSource(st.info, lang)]

\* Variant: the source is tried before the base translation.
WholeChoice_SourceFirst(st, lang, fallbackToSource, regionalFallback, regionalMap) ==
  IF fallbackToSource THEN "source"
  ELSE IF /\ regionalFallback
          /\ lang \in DOMAIN regionalMap
          /\ Truthy(st.result[regionalMap[lang]])
          /\ ~MissingOrEmpty(st.heap, st.result[regionalMap[lang]])
       THEN "regional"
       ELSE "none"

\* Variant: a language with a base never reaches the source fallback.
WholeChoice_NoSourceAfterRegional(st, lang, fallbackToSource, regionalFallback, regionalMap) ==
  IF regionalFallback /\ lang \in DOMAIN regionalMap
  THEN IF /\ Truthy(st.result[regionalMap[lang]])
          /\ ~MissingOrEmpty(st.heap, st.result[regionalMap[lang]])
       THEN "regional" ELSE "none"
  ELSE IF fallbackToSource THEN "source" ELSE "none"

\* Variant: the source fallback does not look at fallbackToSource.
WholeChoice_IgnoresFlag(st, lang, fallbackToSource, regionalFallback, regionalMap) ==
  IF /\ regionalFallback
     /\ lang \in DOMAIN regionalMap
     /\ Truthy(st.result[regionalMap[lang]])
     /\ ~MissingOrEmpty(st.heap, st.result[regionalMap[lang]])
  THEN "regional"
  ELSE "source"

\* What Case 1 does for a missing or empty language: the base translation
\* when regional fallback applies and the base entry is non-empty, else the
\* source when fallbackToSource is enabled, else nothing.
WholeChoice(st, lang, fallbackToSource, regionalFallback, regionalMap) ==
  IF /\ regionalFallback
     /\ lang \in DOMAIN regionalMap
     /\ Truthy(st.result[regionalMap[lang]])
     /\ ~MissingOrEmpty(st.heap, st.result[regionalMap[lang]])
  THEN "regional"
  ELSE IF fallbackToSource THEN "source" ELSE "none"

\* Variant: missingKeys.length >= 0 instead of > 0.
NeedsKeyFill_Always(fallbackToSource, translation, missingKeys) ==
  fallbackToSource /\ TypeofObject(translation)

\* Variant: key-level filling does not look at fallbackToSource.
NeedsKeyFill_IgnoresFlag(fallbackToSource, translation, missingKeys) ==
  TypeofObject(translation) /\ missingKeys # <<>>

\* Case 2 is entered and has something to fill (lines 398-401).
NeedsKeyFill(fallbackToSource, translation, missingKeys) ==
  fallbackToSource /\ TypeofObject(translation) /\ missingKeys # <<>>

\* One iteration of the loop over targetLanguages (lines 370-428).
ApplyLang(st, sourceContent, lang, fallbackToSource, regionalFallback, regionalMap) ==
  LET translation == st.result[lang]
      choice == WholeChoice(st, lang, fallbackToSource, regionalFallback, regionalMap)
      missingKeys == IF TypeofObject(translation)
                     THEN findMissingKeys(st.heap, sourceContent, translation, <<>>)
                     ELSE <<>>
  IN IF MissingOrEmpty(st.heap, translation)
     THEN IF choice = "regional" THEN TakeRegional(st, lang, regionalMap[lang])
          ELSE IF choice = "source" THEN TakeSource(st, sourceContent, lang)
          ELSE st
     ELSE IF NeedsKeyFill(fallbackToSource, translation, missingKeys)
          THEN FillKeys([st EXCEPT !.info = RecordKeys(st.info, lang, missingKeys)],
                        sourceContent, lang, translation, missingKeys, 1,
                        regionalFallback, regionalMap)
          ELSE st

\* Variant: the report is attached unconditionally.
Attach_Always(info) == TRUE

\* if (fallbackInfo.used) result.fallbackInfo = fallbackInfo
Attach(info) == info.used

RECURSIVE ApplyFrom(_, _, _, _, _, _, _)
ApplyFrom(st, sourceContent, targets, i, fallbackToSource, regionalFallback, regionalMap) ==
  IF i > Len(targets) \/ st.threw THEN st
  ELSE ApplyFrom(ApplyLang(st, sourceContent, targets[i], fallbackToSource,
                           regionalFallback, regionalMap),
                 sourceContent, targets, i + 1, fallbackToSource, regionalFallback, regionalMap)

\* Variant: with a custom fallbackLanguage the source document is not used.
applyFallbacks_CustomLanguage(heap, result, sourceContent, targets, sourceLanguage, fallbackToSource, regionalFallback, fallbackLanguage, regionalMap) ==
  LET st == ApplyFrom([heap |-> heap, result |-> result, info |-> NewFallbackInfo,
                       threw |-> FALSE],
                      sourceContent, targets, 1, fallbackToSource /\ fallbackLanguage = "",
                      regionalFallback, regionalMap)
  IN [heap |-> st.heap, result |-> st.result, info |-> st.info, threw |-> st.threw,
      attached |-> ~st.threw /\ Attach(st.info)]

\* applyFallbacks: the pass over targetLanguages, then the report is attached
\* to the result when used (lines 430-433).  fallbackLanguage and
\* sourceLanguage only feed effectiveFallbackLang, which is never read.
applyFallbacks(heap, result, sourceContent, targets, sourceLanguage, fallbackToSource, regionalFallback, fallbackLanguage, regionalMap) ==
  LET effectiveFallbackLang == IF fallbackLanguage # "" THEN fallbackLanguage ELSE sourceLanguage
      st == ApplyFrom([heap |-> heap, result |-> result, info |-> NewFallbackInfo,
                       threw |-> FALSE],
                      sourceContent, targets, 1, fallbackToSource, regionalFallback, regionalMap)
  IN [heap |-> st.heap, result |-> st.result, info |-> st.info, threw |-> st.threw,
      attached |-> ~st.threw /\ Attach(st.info)]

\* ------------------------------------------------------ strings and JSON
\* A string, as far as JSON.parse can tell: the JSON text of a tree, or
\* not JSON at all.
JsonText(tree) == [valid |-> TRUE, tree |-> tree]
NotJson == [valid |-> FALSE, tree |-> TAbsent]

\* JSON.stringify(value, null, 2)
JSONstringify(tree) == JsonText(tree)

\* JSON.parse(text): the tree, or a SyntaxError
JSONparse(text) == [threw |-> ~text.valid, tree |-> text.tree]

\* -------------------------------------------------------------- errors
\* A thrown value: its class (Shipi18nError, Error for every other Error
\* object, value for anything else), its fields, and the place that
\* created it (made), by which one and the same error object is recognised.
NoError == [cls |-> "none", name |-> "", message |-> <<>>, statusCode |-> 0, code |-> "", made |-> ""]

\* new Shipi18nError(message, statusCode, code)
Shipi18nError(message, statusCode, code, made) ==
  [cls |-> "Shipi18nError", name |-> "Shipi18nError", message |-> message,
   statusCode |-> statusCode, code |-> code, made |-> made]

\* Any other Error object (has a name and a message, no statusCode or code).
PlainError(name, message, made) ==
  [cls |-> "Error", name |-> name, message |-> message, statusCode |-> 0, code |-> "", made |-> made]

\* A thrown value that is not an Error (a string, for instance).
ThrownValue(made) ==
  [cls |-> "value", name |-> "", message |-> <<>>, statusCode |-> 0, code |-> "", made |-> made]

\* ------------------------------------------------------------ transport
\* What a non-success body decodes to: not JSON, null, or an object with
\* optional message and code ("" stands for an absent or empty field).
ErrorBodies ==
  { [json |-> FALSE, isNull |-> FALSE, message |-> "", code |-> ""],
    [json |-> TRUE, isNull |-> TRUE, message |-> "", code |-> ""] }
  \cup { [json |-> TRUE, isNull |-> FALSE, message |-> m, code |-> c] :
           m \in {"", "Invalid API key"}, c \in {"", "INVALID_API_KEY"} }

StatusTexts == [s \in {401, 500} |-> IF s = 401 THEN "Unauthorized" ELSE "Internal Server Error"]

\* What fetch can reject with: the abort of the timeout timer, a network
\* failure, an error that is already a Shipi18nError, a non-Error value.
Rejections ==
  { PlainError("AbortError", <<"The operation was aborted">>, "fetch"),
    PlainError("TypeError", <<"Network failure">>, "fetch"),
    Shipi18nError(<<"Custom error">>, 422, "CUSTOM_CODE", "fetch"),
    ThrownValue("fetch") }

\* How one fetch can end, apart from a success with a JSON body: a success
\* whose body is not JSON, a non-success response, a rejection.
Failures ==
  { [kind |-> "malformed", status |-> 200, data |-> CHOOSE d \in ErrorBodies : ~d.json, reason |-> NoError] }
  \cup { [kind |-> "status", status |-> st, data |-> d, reason |-> NoError] :
           st \in DOMAIN StatusTexts, d \in ErrorBodies }
  \cup { [kind |-> "reject", status |-> 0, data |-> CHOOSE d \in ErrorBodies : ~d.json, reason |-> r] :
           r \in Rejections }

\* `HTTP ${response.status}: ${response.statusText}`
DefaultMessage(status) == << "HTTP ", ToString(status), ": ", StatusTexts[status] >>

\* What is raised inside the try block of request (lines 274-296) for a
\* failure: the rejection of fetch; for a non-success response the
\* Shipi18nError built at line 289, or the TypeError of reading
\* errorData.message when the body decoded to null; nothing for a success
\* whose body is not JSON (the promise of response.json() is returned, not
\* awaited, so its rejection is not raised inside the try).
RaisedInTry(f) ==
  IF f.kind = "reject" THEN f.reason
  ELSE IF f.kind = "status"
       THEN IF f.data.json /\ f.data.isNull
            THEN PlainError("TypeError", <<"Cannot read properties of null">>, "line290")
            ELSE Shipi18nError(IF f.data.message # "" THEN << f.data.message >>
                                                     ELSE DefaultMessage(f.status),
                               f.status,
                               IF f.data.code # "" THEN f.data.code ELSE "HTTP_ERROR",
                               "line289")
       ELSE NoError

\* Variant: the catch block tests `instanceof Error` first.
Classify_ErrorFirst(e) ==
  IF e.cls \in {"Error", "Shipi18nError"}
  THEN IF e.name = "AbortError" THEN Shipi18nError(<<"Request timed out">>, 408, "TIMEOUT", "line306")
       ELSE Shipi18nError(e.message, 500, "NETWORK_ERROR", "line308")
  ELSE Shipi18nError(<<"Unknown error occurred">>, 500, "UNKNOWN_ERROR", "line311")

\* The catch block of request (lines 297-312): what it throws for error.
Classify(e) ==
  IF e.cls = "Shipi18nError" THEN e
  ELSE IF e.cls = "Error"
       THEN IF e.name = "AbortError" THEN Shipi18nError(<<"Request timed out">>, 408, "TIMEOUT", "line306")
            ELSE Shipi18nError(e.message, 500, "NETWORK_ERROR", "line308")
       ELSE Shipi18nError(<<"Unknown error occurred">>, 500, "UNKNOWN_ERROR", "line311")

\* What reaches the caller of request for a failure: the outcome of the
\* catch block, or the SyntaxError of response.json() itself.
RequestError(f) ==
  IF f.kind = "malformed" THEN PlainError("SyntaxError", <<"Unexpected token">>, "response.json")
  ELSE Classify(RaisedInTry(f))

\* Variant: the request is issued a second time.
Fetch_Twice(calls) == calls + 2

\* One call of request issues one fetch (line 275).
Fetch(calls) == calls + 1

\* -------------------------------------------------------- request bodies
\* The body translateJSON hands to request (lines 175-186); namespace is
\* undefined and JSON.stringify leaves it out.  options holds what the
\* caller passed as skipKeys and skipPaths, which the method does not read.
translateJSONBody(text, sourceLanguage, targets, options) ==
  [inputMethod |-> "text", text |-> text, sourceLanguage |-> sourceLanguage,
   targetLanguages |-> targets, outputFormat |-> "json",
   preservePlaceholders |-> "true", enablePluralization |-> "true",
   groupByNamespace |-> "auto", exportPerNamespace |-> FALSE]

\* Variant: translateText resolves regional tags as translateJSON does.
TextTargets_Resolved(targets, regional) == processRegionalLanguages(targets, regional).processedTargets

\* The target languages translateText sends (line 227): the fallback
\* options are not destructured (lines 214-219).
TextTargets(targets, regional) == targets

\* The body translateText hands to request (lines 223-230).
translateTextBody(text, sourceLanguage, targets) ==
  [inputMethod |-> "text", text |-> text, sourceLanguage |-> sourceLanguage,
   targetLanguages |-> targets, outputFormat |-> "text",
   preservePlaceholders |-> "true"]

\* content.join('\n') for an array, content itself for a string: a text is
\* the sequence of its lines.
RECURSIVE JoinLines(_, _)
JoinLines(kids, keys) ==
  IF keys = <<>> THEN <<>> ELSE << kids[Head(keys)].s >> \o JoinLines(kids, Tail(keys))

TextOf(c) == IF c.t = "arr" THEN JoinLines(c.kids, KeysOf(c.kids)) ELSE << c.s >>

\* A request as fetch receives it.
NoRequest == [endpoint |-> "", method |-> "", body |-> EmptyFcn]

\* ------------------------------------------------------------ input sets
\* The language tags a caller requests: a base language and a regional variant of it.
pt == << "pt" >>
ptBR == << "pt", "BR" >>
AllTags == {pt, ptBR}

\* The word the remote service uses for every string it translates to a language.
Word(lang) == IF lang = pt THEN "Oi" ELSE "Opa"

\* A document tree from optional members (an absent member is left out).
MkDoc(members) == TDoc([k \in {q \in DOMAIN members : members[q] # TAbsent} |-> members[k]])

Pair(k1, v1, k2, v2) == [k \in {k1, k2} |-> IF k = k1 THEN v1 ELSE v2]
Triple(k1, v1, k2, v2, k3, v3) ==
  [k \in {k1, k2, k3} |-> IF k = k1 THEN v1 ELSE IF k = k2 THEN v2 ELSE v3]

\* Source contents a caller passes: key "a", nested document "g", dotted key "g.y".
SourceMembers ==
  { m \in [a : {TAbsent, TStr("Hello"), TStr("")},
           g : {TAbsent, MkDoc(Pair(<<"x">>, TStr("One"), <<"y">>, TStr("Two")))},
           d : {TAbsent, TStr("Dot")}] :
      m.d # TAbsent => m.a = TStr("Hello") }

SourceDocs == { MkDoc(Triple(<<"a">>, m.a, <<"g">>, m.g, <<"g", "y">>, m.d)) : m \in SourceMembers }

\* The shapes of what the remote service may return for one language:
\* nothing at all, or a document with optional members "a" and "g"
\* ("g" a document or null).
Shapes == [present : BOOLEAN, a : {"absent", "word", "null"}, g : {"absent", "x", "xy", "null"}]

EntryShapes ==
  { sh \in Shapes : /\ ~sh.present => (sh.a = "absent" /\ sh.g = "absent")
                    /\ sh.a = "null" => sh.g = "x"
                    /\ (sh.a = "absent" /\ sh.g = "x") => FALSE
                    /\ sh.g = "null" => sh.a = "word" }

Entry(sh, lang) ==
  IF ~sh.present THEN TAbsent
  ELSE MkDoc(Pair(<<"a">>, IF sh.a = "word" THEN TStr(Word(lang))
                           ELSE IF sh.a = "null" THEN TNull ELSE TAbsent,
                  <<"g">>, IF sh.g = "absent" THEN TAbsent
                           ELSE IF sh.g = "null" THEN TNull
                           ELSE MkDoc(Pair(<<"x">>, TStr(Word(lang)),
                                           <<"y">>, IF sh.g = "xy" THEN TStr(Word(lang))
                                                    ELSE TAbsent))))

TargetLists == UNION { [1..n -> AllTags] : n \in 0..MaxTargets }

FallbackLanguages == {"", "fr"}

SeqToSet(seq) == {seq[i] : i \in 1..Len(seq)}

\* Response bodies: one optional entry per language that was sent.
Bodies(sent) == { [l \in SeqToSet(sent) |-> Entry(shape[l], l)] :
                    shape \in [SeqToSet(sent) -> EntryShapes] }

\* What a caller passes as content to translateJSON: an object, or a
\* string (isString) holding JSON text or not; text is the string, or the
\* text the object serialises to.
AsObject(doc) == [isString |-> FALSE, text |-> JsonText(doc)]
AsString(text) == [isString |-> TRUE, text |-> text]

\* skipKeys and skipPaths as a caller passes them (given), or not at all.
NoOptions ==
  [skipKeys |-> [given |-> FALSE, list |-> <<>>], skipPaths |-> [given |-> FALSE, list |-> <<>>]]

SkipOptions ==
  [skipKeys : {[given |-> FALSE, list |-> <<>>], [given |-> TRUE, list |-> <<"brandName">>]},
   skipPaths : {[given |-> FALSE, list |-> <<>>], [given |-> TRUE, list |-> <<"states.*">>]}]

\* Contents at the API boundary: an object, the same document as a JSON
\* string, and a string that is not JSON.
ApiContents ==
  { AsObject(MkDoc(Pair(<<"a">>, TStr("Hello"), <<"g">>, TAbsent))),
    AsString(JsonText(MkDoc(Pair(<<"a">>, TStr("Hello"), <<"g">>, TAbsent)))),
    AsString(NotJson) }

\* The shapes the remote service returns at the API boundary: nothing for a
\* language, or its one word.
ApiBodies(sent) ==
  { [l \in SeqToSet(sent) |-> Entry(shape[l], l)] :
      shape \in [SeqToSet(sent) -> { sh \in EntryShapes : sh.g = "absent" /\ sh.a # "null" }] }

\* Contents of translateText: a string, or an array of strings.
TextContents == { TStr("Hello"), TArr(Pair(<<"0">>, TStr("Hello"), <<"1">>, TStr("Bye"))) }

\* Text-mode responses: for each language nothing, or a list with its word.
TextBodies(sent) ==
  { [l \in SeqToSet(sent) |-> IF l \in present THEN TArr(Pair(<<"0">>, TStr(Word(l)), <<"1">>, TAbsent))
                                                 ELSE TAbsent] :
      present \in SUBSET SeqToSet(sent) }

\* ------------------------------------------------------------------ state
\* The client as the constructor leaves it (lines 127-135): the key it was
\* given, the default base URL and the default timeout.
NewClient == [apiKey |-> "sk_live_key", baseUrl |-> "https://ydjkwckq3f.execute-api.us-east-1.amazonaws.com", timeout |-> 30000]

\* No private helper has been run on its own.
NoHelperCall ==
  [fn |-> "none", source |-> TAbsent, translation |-> TAbsent, missing |-> <<>>,
   obj |-> TAbsent, path |-> <<>>, value |-> TAbsent, threw |-> FALSE,
   after |-> TAbsent, got |-> TAbsent]

\* The invocations that may be in flight together on one client.
Invocations == {1, 2}

\* An invocation that has not been made.
NotInvoked ==
  [pc |-> "idle", targetLanguages |-> <<>>, fallbackToSource |-> FALSE,
   regionalFallback |-> FALSE, processedTargets |-> <<>>, regionalMap |-> EmptyFcn,
   body |-> EmptyFcn, result |-> [l \in AllTags |-> Undefined],
   fallbackInfo |-> NewFallbackInfo, attached |-> FALSE, calledAt |-> 0, resumedAt |-> 0]

VARIABLES pc, op, content, contentIsString, options, targetLanguages,
          fallbackToSource, regionalFallback, fallbackLanguage,
          processedTargets, regionalMap, request, calls, failure, raised,
          error, body, heap, sourceContent, result, fallbackInfo, attached,
          client, helper, invocation

vars == << pc, op, content, contentIsString, options, targetLanguages,
           fallbackToSource, regionalFallback, fallbackLanguage,
           processedTargets, regionalMap, request, calls, failure, raised,
           error, body, heap, sourceContent, result, fallbackInfo, attached,
           client, helper, invocation >>

\* What the methods of one invocation at a time leave alone: the client's
\* configuration, the record of a helper run on its own and the pair of
\* invocations in flight together.
aside == << client, helper, invocation >>

NoResult == [l \in AllTags |-> Undefined]

\* No failure: the fetch has not ended, or ended in a success with a JSON body.
NoFailure ==
  [kind |-> "none", status |-> 0, data |-> CHOOSE d \in ErrorBodies : ~d.json, reason |-> NoError]

Init ==
  /\ pc = "idle"
  /\ op = "none"
  /\ content = TAbsent
  /\ contentIsString = FALSE
  /\ options = NoOptions
  /\ targetLanguages = <<>>
  /\ fallbackToSource = TRUE
  /\ regionalFallback = TRUE
  /\ fallbackLanguage = ""
  /\ processedTargets = <<>>
  /\ regionalMap = EmptyFcn
  /\ request = NoRequest
  /\ calls = 0
  /\ failure = NoFailure
  /\ raised = NoError
  /\ error = NoError
  /\ body = EmptyFcn
  /\ heap = <<>>
  /\ sourceContent = Undefined
  /\ result = NoResult
  /\ fallbackInfo = NewFallbackInfo
  /\ attached = FALSE
  /\ client = NewClient
  /\ helper = NoHelperCall
  /\ invocation = [i \in Invocations |-> NotInvoked]

\* translateJSON up to the await (lines 150-186): the options are
\* destructured, the content is serialised and parsed, the regional resolver
\* runs and the request is handed to the transport.  A string that is not
\* JSON makes JSON.parse raise before anything is sent.
Invoke(given, opts, tl, fts, rf, fl) ==
  LET text == IF given.isString THEN given.text ELSE JSONstringify(given.text.tree)
      parsed == IF given.isString THEN JSONparse(given.text)
                ELSE [threw |-> FALSE, tree |-> given.text.tree]
      loaded == Load(<<>>, parsed.tree)
      pr == processRegionalLanguages(tl, rf)
  IN /\ op' = "translateJSON"
     /\ content' = parsed.tree
     /\ contentIsString' = given.isString
     /\ options' = opts
     /\ targetLanguages' = tl
     /\ fallbackToSource' = fts
     /\ regionalFallback' = rf
     /\ fallbackLanguage' = fl
     /\ IF parsed.threw
        THEN /\ pc' = "threw"
             /\ error' = PlainError("SyntaxError", <<"Unexpected token">>, "JSON.parse")
             /\ UNCHANGED << heap, sourceContent, processedTargets, regionalMap, request, calls >>
        ELSE /\ pc' = "waiting"
             /\ error' = NoError
             /\ heap' = loaded.heap
             /\ sourceContent' = loaded.val
             /\ processedTargets' = pr.processedTargets
             /\ regionalMap' = pr.regionalMap
             /\ request' = [endpoint |-> "/api/translate", method |-> "POST",
                            body |-> translateJSONBody(text, "en", pr.processedTargets, opts)]
             /\ calls' = Fetch(calls)
     /\ UNCHANGED << failure, raised, body, result, fallbackInfo, attached >>
     /\ UNCHANGED aside

\* translateJSON called with an object as content and no skip options.
Call ==
  /\ pc = "idle"
  /\ \E c \in SourceDocs, tl \in TargetLists, fts \in BOOLEAN, rf \in BOOLEAN,
        fl \in FallbackLanguages :
       Invoke(AsObject(c), NoOptions, tl, fts, rf, fl)

RECURSIVE LoadBody(_, _, _, _)
\* response.json(): every entry of the body becomes objects of the heap.
LoadBody(h, b, langs, res) ==
  IF langs = <<>> THEN [heap |-> h, result |-> res]
  ELSE LET one == Load(h, b[Head(langs)])
       IN LoadBody(one.heap, b, Tail(langs), Put(res, Head(langs), one.val))

\* The transport answers translateJSON with the decoded body b; the method
\* resumes and returns what applyFallbacks returns (or raises what it raises).
Deliver(b) ==
  LET dec == LoadBody(heap, b, processedTargets, NoResult)
      out == applyFallbacks(dec.heap, dec.result, sourceContent, targetLanguages,
                            "en", fallbackToSource, regionalFallback,
                            fallbackLanguage, regionalMap)
  IN /\ body' = b
     /\ heap' = out.heap
     /\ result' = out.result
     /\ fallbackInfo' = out.info
     /\ attached' = out.attached
     /\ pc' = IF out.threw THEN "threw" ELSE "done"
     /\ error' = IF out.threw
                 THEN PlainError("TypeError", <<"Cannot set properties of null">>, "setNestedValue")
                 ELSE NoError
     /\ UNCHANGED << op, content, contentIsString, options, targetLanguages,
                     fallbackToSource, regionalFallback, fallbackLanguage,
                     processedTargets, regionalMap, request, calls, failure,
                     raised, sourceContent >>
     /\ UNCHANGED aside

Respond ==
  /\ pc = "waiting"
  /\ op = "translateJSON"
  /\ \E b \in Bodies(processedTargets) : Deliver(b)

Next == Call \/ Respond

Spec == Init /\ [][Next]_vars

\* --------------------------------------------------- the API boundary
\* translateJSON called with any content and any skip options.
CallJSON ==
  /\ pc = "idle"
  /\ \E g \in ApiContents, o \in SkipOptions, tl \in TargetLists, fts \in BOOLEAN,
        rf \in BOOLEAN, fl \in FallbackLanguages :
       Invoke(g, o, tl, fts, rf, fl)

\* translateText up to the return of request's promise (lines 213-231).
CallText ==
  /\ pc = "idle"
  /\ \E c \in TextContents, tl \in TargetLists, fts \in BOOLEAN, rf \in BOOLEAN :
       /\ content' = c
       /\ targetLanguages' = tl
       /\ fallbackToSource' = fts
       /\ regionalFallback' = rf
       /\ request' = [endpoint |-> "/api/translate", method |-> "POST",
                      body |-> translateTextBody(TextOf(c), "en", TextTargets(tl, rf))]
  /\ op' = "translateText"
  /\ calls' = Fetch(calls)
  /\ pc' = "waiting"
  /\ UNCHANGED << contentIsString, options, fallbackLanguage, processedTargets,
                  regionalMap, failure, raised, error, body, heap, sourceContent,
                  result, fallbackInfo, attached >>
  /\ UNCHANGED aside

\* getLanguages up to the return of request's promise (lines 260-262); a GET
\* carries no body (line 281).
CallLanguages ==
  /\ pc = "idle"
  /\ op' = "getLanguages"
  /\ request' = [endpoint |-> "/api/languages", method |-> "GET", body |-> EmptyFcn]
  /\ calls' = Fetch(calls)
  /\ pc' = "waiting"
  /\ UNCHANGED << content, contentIsString, options, targetLanguages,
                  fallbackToSource, regionalFallback, fallbackLanguage,
                  processedTargets, regionalMap, failure, raised, error, body,
                  heap, sourceContent, result, fallbackInfo, attached >>
  /\ UNCHANGED aside

\* The transport answers translateJSON with a JSON body.
Succeed ==
  /\ pc = "waiting"
  /\ op = "translateJSON"
  /\ \E b \in ApiBodies(processedTargets) : Deliver(b)

\* The transport answers translateText with a JSON body, which is returned
\* as it is (lines 223, 296).
SucceedText ==
  /\ pc = "waiting"
  /\ op = "translateText"
  /\ \E b \in TextBodies(request.body.targetLanguages) :
       LET dec == LoadBody(heap, b, request.body.targetLanguages, NoResult)
       IN /\ body' = b
          /\ heap' = dec.heap
          /\ result' = dec.result
  /\ pc' = "done"
  /\ UNCHANGED << op, content, contentIsString, options, targetLanguages,
                  fallbackToSource, regionalFallback, fallbackLanguage,
                  processedTargets, regionalMap, request, calls, failure,
                  raised, error, sourceContent, fallbackInfo, attached >>
  /\ UNCHANGED aside

\* The transport answers getLanguages with a JSON body, which is returned
\* as it is (lines 261, 296).
SucceedLanguages ==
  /\ pc = "waiting"
  /\ op = "getLanguages"
  /\ pc' = "done"
  /\ UNCHANGED << op, content, contentIsString, options, targetLanguages,
                  fallbackToSource, regionalFallback, fallbackLanguage,
                  processedTargets, regionalMap, request, calls, failure,
                  raised, error, body, heap, sourceContent, result,
                  fallbackInfo, attached >>
  /\ UNCHANGED aside

\* The call fails: request raises (lines 287-312) and the method that
\* awaits or returns its promise raises the same to its caller.
Fail ==
  /\ pc = "waiting"
  /\ \E f \in Failures :
       /\ failure' = f
       /\ raised' = RaisedInTry(f)
       /\ error' = RequestError(f)
  /\ pc' = "threw"
  /\ UNCHANGED << op, content, contentIsString, options, targetLanguages,
                  fallbackToSource, regionalFallback, fallbackLanguage,
                  processedTargets, regionalMap, request, calls, body, heap,
                  sourceContent, result, fallbackInfo, attached >>
  /\ UNCHANGED aside

ApiNext ==
  CallJSON \/ CallText \/ CallLanguages \/ Succeed \/ SucceedText \/ SucceedLanguages \/ Fail

ApiSpec == Init /\ [][ApiNext]_vars

\* ------------------------------------------------ the helpers on their own
\* Documents handed to findMissingKeys as source: member "a" a string, ""
\* or null, member "g" a document, an array or null, and a dotted key "g.y".
HelperSources ==
  { MkDoc(Triple(<<"a">>, m.a, <<"g">>, m.g, <<"g", "y">>, m.d)) :
      m \in { n \in [a : {TAbsent, TStr("Hello"), TStr(""), TNull},
                     g : {TAbsent, TNull, TArr(<<"0">> :> TStr("One")),
                          MkDoc(Pair(<<"x">>, TStr("One"), <<"y">>, TStr("Two")))},
                     d : {TAbsent, TStr("Dot")}] :
                n.d # TAbsent => (n.a = TStr("Hello") /\ n.g.t = "doc") } }

\* Documents handed to findMissingKeys as candidate and to setNestedValue as
\* target: member "g" may be null, a string, a document or an array.
HelperCandidates ==
  { MkDoc(Pair(<<"a">>, m.a, <<"g">>, m.g)) :
      m \in [a : {TAbsent, TStr("Oi"), TStr(""), TNull},
             g : {TAbsent, TNull, TStr("Oi"), TArr(<<"0">> :> TStr("Oi")),
                  MkDoc(Pair(<<"x">>, TStr("Oi"), <<"y">>, TAbsent)),
                  MkDoc(Pair(<<"x">>, TStr("Oi"), <<"y">>, TStr("")))}] }

\* Dot-paths and values handed to setNestedValue.
HelperPaths == { <<"a">>, <<"g">>, <<"g", "x">>, <<"g", "y">>, <<"x", "y">> }

HelperValues == { TStr("New"), TStr(""), TNull }

\* The variables of the client methods, which a helper run on its own and
\* the paired invocations do not touch.
methodVars ==
  << pc, op, content, contentIsString, options, targetLanguages, fallbackToSource,
     regionalFallback, fallbackLanguage, processedTargets, regionalMap, request,
     calls, failure, raised, error, body, sourceContent, result, fallbackInfo,
     attached >>

\* findMissingKeys(source, translation) run on two decoded documents
\* (lines 441-474).
RunFindMissingKeys ==
  /\ pc = "idle"
  /\ helper.fn = "none"
  /\ \E s \in HelperSources, t \in HelperCandidates :
       LET src == Load(<<>>, s)
           tr == Load(src.heap, t)
       IN helper' = [NoHelperCall EXCEPT
                       !.fn = "findMissingKeys", !.source = s, !.translation = t,
                       !.missing = findMissingKeys(tr.heap, src.val, tr.val, <<>>)]
  /\ UNCHANGED << methodVars, heap, client, invocation >>

\* setNestedValue(obj, path, value) run on a decoded document, then
\* getNestedValue(obj, path) on what it left (lines 479-504).
RunSetNestedValue ==
  /\ pc = "idle"
  /\ helper.fn = "none"
  /\ \E d \in HelperCandidates, p \in HelperPaths, v \in HelperValues :
       LET o == Load(<<>>, d)
           set == setNestedValue(o.heap, o.val, p, Load(o.heap, v).val)
       IN helper' = [NoHelperCall EXCEPT
                       !.fn = "setNestedValue", !.obj = d, !.path = p, !.value = v,
                       !.threw = set.threw,
                       !.after = Deref(set.heap, o.val),
                       !.got = IF set.threw THEN TAbsent
                               ELSE Deref(set.heap, getNestedValue(set.heap, o.val, p))]
  /\ UNCHANGED << methodVars, heap, client, invocation >>

HelperNext == RunFindMissingKeys \/ RunSetNestedValue

HelperSpec == Init /\ [][HelperNext]_vars

\* ------------------------------------------- two invocations in flight
\* The document the caller passes to both invocations: with a nested
\* document, with an empty nested value, with a dotted key.
PairSources ==
  { MkDoc(Triple(<<"a">>, TStr("Hello"),
                 <<"g">>, MkDoc(Pair(<<"x">>, x, <<"y">>, TStr("Two"))),
                 <<"g", "y">>, d)) :
      x \in {TStr("One"), TStr("")}, d \in {TAbsent, TStr("Dot")} }

PairTargets == { << ptBR >>, << pt, ptBR >>, << ptBR, ptBR >> }

\* What the remote service returns for one language of a paired invocation.
PairEntries(lang) ==
  { TAbsent,
    MkDoc(Pair(<<"a">>, TStr(Word(lang)), <<"g">>, TAbsent)),
    MkDoc(Pair(<<"a">>, TAbsent, <<"g">>, MkDoc(Pair(<<"x">>, TStr(Word(lang)), <<"y">>, TAbsent)))) }

PairBodies(sent) ==
  { b \in [SeqToSet(sent) -> UNION { PairEntries(l) : l \in AllTags }] :
      \A l \in SeqToSet(sent) : b[l] \in PairEntries(l) }

\* The steps the two invocations have taken so far (calls and resumptions).
StepsTaken ==
  Cardinality({ i \in Invocations : invocation[i].pc # "idle" })
  + Cardinality({ i \in Invocations : invocation[i].pc \in {"done", "threw"} })

\* Invocation i of translateJSON up to its await (lines 150-186), on the
\* document object the caller passes to both invocations.
PairCall(i) ==
  /\ pc = "idle"
  /\ helper.fn = "none"
  /\ invocation[i].pc = "idle"
  /\ \E c \in (IF sourceContent = Undefined THEN PairSources ELSE {content}),
        tl \in PairTargets, fts \in BOOLEAN :
       LET loaded == IF sourceContent = Undefined THEN Load(<<>>, c)
                     ELSE [heap |-> heap, val |-> sourceContent]
           pr == processRegionalLanguages(tl, TRUE)
       IN /\ content' = c
          /\ heap' = loaded.heap
          /\ sourceContent' = loaded.val
          /\ invocation' = [invocation EXCEPT ![i] =
               [NotInvoked EXCEPT !.pc = "waiting", !.targetLanguages = tl,
                                  !.fallbackToSource = fts, !.regionalFallback = TRUE,
                                  !.processedTargets = pr.processedTargets,
                                  !.regionalMap = pr.regionalMap,
                                  !.calledAt = StepsTaken + 1]]
  /\ calls' = Fetch(calls)
  /\ UNCHANGED << pc, op, contentIsString, options, targetLanguages, fallbackToSource,
                  regionalFallback, fallbackLanguage, processedTargets, regionalMap,
                  request, failure, raised, error, body, result, fallbackInfo,
                  attached, client, helper >>

\* The transport answers invocation i; it resumes and runs applyFallbacks
\* on its own decoded response (lines 187-198).
PairRespond(i) ==
  /\ invocation[i].pc = "waiting"
  /\ \E b \in PairBodies(invocation[i].processedTargets) :
       LET inv == invocation[i]
           dec == LoadBody(heap, b, inv.processedTargets, NoResult)
           out == applyFallbacks(dec.heap, dec.result, sourceContent, inv.targetLanguages,
                                 "en", inv.fallbackToSource, inv.regionalFallback, "",
                                 inv.regionalMap)
       IN /\ heap' = out.heap
          /\ invocation' = [invocation EXCEPT ![i] =
               [inv EXCEPT !.pc = IF out.threw THEN "threw" ELSE "done",
                           !.body = b, !.result = out.result,
                           !.fallbackInfo = out.info, !.attached = out.attached,
                           !.resumedAt = StepsTaken + 1]]
  /\ UNCHANGED << methodVars, client, helper >>

PairNext == (\E i \in Invocations : PairCall(i)) \/ (\E i \in Invocations : PairRespond(i))

PairSpec == Init /\ [][PairNext]_vars

\* ---------------------------------------------------- notions for the claims
Done == pc = "done" /\ op = "translateJSON"

Requested(lang) == Includes(targetLanguages, lang)

\* The entry of a language in the response as the transport returned it.
Raw(lang) == IF lang \in DOMAIN body THEN body[lang] ELSE TAbsent

IsEmptyDoc(tree) == tree.t = "doc" /\ DOMAIN tree.kids = {}

IsNonEmptyDoc(tree) == tree.t = "doc" /\ DOMAIN tree.kids # {}

\* The entry of a language in the returned result, as a tree.
Final(lang) == Deref(heap, result[lang])

\* The pass of applyFallbacks replayed on the decoded response: the state
\* after the first n target languages have been processed.
Decoded == LoadBody(Load(<<>>, content).heap, body, processedTargets, NoResult)

StAfter(n) ==
  ApplyFrom([heap |-> Decoded.heap, result |-> Decoded.result, info |-> NewFallbackInfo,
             threw |-> FALSE],
            sourceContent, SubSeq(targetLanguages, 1, n), 1,
            fallbackToSource, regionalFallback, regionalMap)

FirstOccurrence(i) == \A j \in 1..(i - 1) : targetLanguages[j] # targetLanguages[i]

\* ------------------------------------------------------------------ claims

\* C1: a requested language whose response entry is missing or an empty
\* document, with regionalFallback enabled, a base in regionalMap and a
\* non-empty base entry in the response: when applyFallbacks processes it, its
\* result becomes a copy (a distinct object with the same content) of the base
\* document as it then stands; the report has regionalFallbacks[lang] = base
\* and used = TRUE, and lang is not in languagesFallbackToSource.
C1_Case(lang) ==
  /\ Requested(lang)
  /\ Raw(lang) = TAbsent \/ IsEmptyDoc(Raw(lang))
  /\ regionalFallback
  /\ lang \in DOMAIN regionalMap
  /\ IsNonEmptyDoc(Raw(regionalMap[lang]))

C2_Case(lang) ==
  /\ Requested(lang)
  /\ fallbackToSource
  /\ Raw(lang) = TAbsent
  /\ Raw(BaseOf(lang)) = TAbsent

C2_SourceFallback ==
  Done =>
    \A lang \in AllTags :
      C2_Case(lang) =>
        /\ Final(lang) = content
        /\ Includes(fallbackInfo.languagesFallbackToSource, lang)

\* C5: the returned result carries fallbackInfo exactly when used is true.
C5_AttachedIffUsed == Done => (attached <=> fallbackInfo.used)

C5_Witness == Done /\ attached /\ fallbackInfo.used

\* C6: used is true exactly when some fallback was recorded in
\* languagesFallbackToSource, regionalFallbacks or keysFallback.
C6_UsedIffAny ==
  Done =>
    (fallbackInfo.used <=>
       \/ fallbackInfo.languagesFallbackToSource # <<>>
       \/ DOMAIN fallbackInfo.regionalFallbacks # {}
       \/ DOMAIN fallbackInfo.keysFallback # {})

C6_Witness ==
  /\ Done
  /\ fallbackInfo.used
  /\ fallbackInfo.languagesFallbackToSource # <<>>
  /\ DOMAIN fallbackInfo.regionalFallbacks # {}
  /\ DOMAIN fallbackInfo.keysFallback # {}

\* A value that findMissingKeys counts as missing: absent, null or "".
MissingValue(tree) == tree.t \in {"undef", "null"} \/ tree = TStr("")

Kid(tree, k) == IF k \in DOMAIN tree.kids THEN tree.kids[k] ELSE TAbsent

\* The translation with every missing member taken from the source, member
\* by member and document by document (no dot-paths involved).
RECURSIVE Filled(_, _)
Filled(src, tr) ==
  TDoc([k \in (DOMAIN src.kids) \cup (DOMAIN tr.kids) |->
          IF k \notin DOMAIN src.kids THEN tr.kids[k]
          ELSE IF MissingValue(Kid(tr, k)) THEN src.kids[k]
          ELSE IF src.kids[k].t = "doc" /\ tr.kids[k].t = "doc"
               THEN Filled(src.kids[k], tr.kids[k])
               ELSE tr.kids[k]])

\* The translation has a member for every key of the source, at every depth.
RECURSIVE ContainsKeys(_, _)
ContainsKeys(src, tr) ==
  \A k \in DOMAIN src.kids :
    /\ k \in DOMAIN tr.kids
    /\ src.kids[k].t = "doc" => (tr.kids[k].t = "doc" /\ ContainsKeys(src.kids[k], tr.kids[k]))

\* The translation has a value other than null and "" for every key of the
\* source, nested documents compared member by member.
RECURSIVE Complete(_, _)
Complete(src, tr) ==
  \A k \in DOMAIN src.kids :
    /\ ~MissingValue(Kid(tr, k))
    /\ (src.kids[k].t = "doc" /\ tr.kids[k].t \in {"doc", "arr"}) => Complete(src.kids[k], tr.kids[k])

\* The paths findMissingKeys reports for a language on the decoded response.
RawMissing(lang) == findMissingKeys(Decoded.heap, sourceContent, Decoded.result[lang], <<>>)

\* C3: with fallbackToSource enabled, a requested language without a
\* regional base whose translation is a non-empty document ends as that
\* translation with the source value at every missing place (translated
\* values kept), and keysFallback[lang] holds the paths findMissingKeys
\* reports.
C3_Case(lang) ==
  /\ Requested(lang)
  /\ fallbackToSource
  /\ lang \notin DOMAIN regionalMap
  /\ IsNonEmptyDoc(Raw(lang))

C3_KeyFill ==
  Done =>
    \A lang \in AllTags :
      C3_Case(lang) =>
        /\ Final(lang) = Filled(content, Raw(lang))
        /\ RawMissing(lang) # <<>> =>
             /\ lang \in DOMAIN fallbackInfo.keysFallback
             /\ SeqToSet(RawMissing(lang)) \subseteq SeqToSet(fallbackInfo.keysFallback[lang])

\* C4 as stated: every requested language's translation contains every key
\* of the source; then the translation map is unchanged and no report is
\* attached.
C4_ContainsKeysUnchanged ==
  Done =>
    ((\A lang \in AllTags :
        Requested(lang) => (Raw(lang).t = "doc" /\ ContainsKeys(content, Raw(lang))))
     => /\ \A lang \in AllTags : Final(lang) = Raw(lang)
        /\ ~attached)

\* C4 amended: every requested language's translation is a non-empty
\* document with a value other than null and "" for every key of the source;
\* then the translation map is unchanged and no report is attached.
C4_Case ==
  \A lang \in AllTags :
    Requested(lang) => (IsNonEmptyDoc(Raw(lang)) /\ Complete(content, Raw(lang)))

C4_CompleteUnchanged ==
  (Done /\ C4_Case) =>
     /\ \A lang \in AllTags : Final(lang) = Raw(lang)
     /\ ~attached
     /\ ~fallbackInfo.used

C4_Witness ==
  /\ Done
  /\ C4_Case
  /\ fallbackToSource
  /\ Len(targetLanguages) > 1
  /\ IsNonEmptyDoc(Kid(content, <<"g">>))

\* C7 as stated: with both fallbacks enabled every requested language has an
\* entry and findMissingKeys(source, result[lang]) is empty.
C7_EveryGapFilled ==
  (Done /\ fallbackToSource /\ regionalFallback) =>
    \A lang \in AllTags :
      Requested(lang) =>
        /\ result[lang].t = "ref"
        /\ findMissingKeys(heap, sourceContent, result[lang], <<>>) = <<>>

\* C7 amended: with both fallbacks enabled every requested language has an
\* entry in the result, none left absent or null (its keys may still be
\* missing).
C7_EveryLanguageHasEntry ==
  (Done /\ fallbackToSource /\ regionalFallback) =>
    \A lang \in AllTags :
      Requested(lang) => (result[lang] # Undefined /\ result[lang] # Null)

C7_Witness ==
  /\ Done
  /\ fallbackToSource
  /\ regionalFallback
  /\ \E lang \in AllTags :
       /\ Requested(lang)
       /\ Raw(lang) = TAbsent
       /\ result[lang].t = "ref"
       /\ findMissingKeys(heap, sourceContent, result[lang], <<>>) # <<>>

\* C8: the result and the report do not depend on the order of targetLanguages.
Reorderings(seq) ==
  { [i \in 1..Len(seq) |-> seq[p[i]]] :
      p \in { q \in [1..Len(seq) -> 1..Len(seq)] : \A i, j \in 1..Len(seq) : q[i] = q[j] => i = j } }

\* What the caller can observe of an outcome of applyFallbacks.
Observed(out) ==
  [docs |-> [l \in AllTags |-> Deref(out.heap, out.result[l])],
   attached |-> out.attached,
   used |-> out.info.used,
   source |-> SeqToSet(out.info.languagesFallbackToSource),
   regional |-> out.info.regionalFallbacks,
   keys |-> out.info.keysFallback]

C8_OrderIndependent ==
  Done =>
    \A tl \in Reorderings(targetLanguages) :
      Observed(applyFallbacks(Decoded.heap, Decoded.result, sourceContent, tl, "en",
                              fallbackToSource, regionalFallback, fallbackLanguage,
                              regionalMap))
        = Observed([heap |-> heap, result |-> result, info |-> fallbackInfo,
                    attached |-> attached])

\* C9 as stated: with fallbackToSource disabled, a requested language that
\* is absent or an empty document in the response and has no usable base
\* translation has no entry at all in the final result.
C9_Case(lang) ==
  /\ Requested(lang)
  /\ ~fallbackToSource
  /\ Raw(lang) = TAbsent \/ IsEmptyDoc(Raw(lang))
  /\ ~(regionalFallback /\ lang \in DOMAIN regionalMap /\ IsNonEmptyDoc(Raw(regionalMap[lang])))

C9_NoEntry ==
  Done => \A lang \in AllTags : C9_Case(lang) => result[lang] = Undefined

\* C9 amended: such a language is left as the response had it (no entry
\* when it was absent, the empty document when it was returned empty) and
\* is named nowhere in the report.
C9_LeftAsReturned ==
  Done =>
    \A lang \in AllTags :
      C9_Case(lang) =>
        /\ Final(lang) = Raw(lang)
        /\ Raw(lang) = TAbsent => result[lang] = Undefined
        /\ ~Includes(fallbackInfo.languagesFallbackToSource, lang)
        /\ lang \notin DOMAIN fallbackInfo.regionalFallbacks
        /\ lang \notin DOMAIN fallbackInfo.keysFallback

C9_Witness ==
  /\ Done
  /\ C9_Case(ptBR)
  /\ regionalFallback
  /\ IsEmptyDoc(Raw(ptBR))
  /\ IsEmptyDoc(Final(ptBR))

C10_Case(tag) ==
  /\ Requested(tag)
  /\ regionalFallback
  /\ HasHyphen(tag)
  /\ Raw(tag) = TAbsent \/ IsEmptyDoc(Raw(tag))
  /\ IsNonEmptyDoc(Raw(BaseOf(tag)))

Sent == request.body.targetLanguages

NoDuplicates(seq) == \A i, j \in 1..Len(seq) : seq[i] = seq[j] => i = j

Ended == pc \in {"done", "threw"}

\* The call to the transport failed.
ApiFailed == failure.kind # "none"

\* C12: when the API call fails and fallbackToSource is enabled,
\* translateJSON returns the source content for every requested language.
C12_SourceOnApiError ==
  (Ended /\ op = "translateJSON" /\ ApiFailed /\ fallbackToSource) =>
    /\ pc = "done"
    /\ \A lang \in AllTags : Requested(lang) => Final(lang) = content

\* C13: every invocation of translateJSON, translateText or getLanguages
\* ends in a completed result or in a Shipi18nError (with code and
\* statusCode); no other error reaches the caller, whatever the transport
\* does.
C13_ResultOrClassified ==
  (Ended /\ op \in {"translateJSON", "translateText", "getLanguages"}) =>
    \/ pc = "done" /\ error = NoError
    \/ pc = "threw" /\ error.cls = "Shipi18nError" /\ error.code # "" /\ error.statusCode # 0

\* C14: request classifies each failure by kind: a non-success response
\* gives a Shipi18nError with the response status, the body's message or
\* else "HTTP <status>: <statusText>", the body's code or else HTTP_ERROR;
\* an abort gives TIMEOUT with 408; any other Error gives NETWORK_ERROR
\* with 500; a thrown value that is not an Error gives UNKNOWN_ERROR with 500.
C14_ClassifiedByKind ==
  (pc = "threw" /\ ApiFailed) =>
    /\ failure.kind = "status" =>
         /\ error.cls = "Shipi18nError"
         /\ error.statusCode = failure.status
         /\ error.message = IF failure.data.message # "" THEN << failure.data.message >>
                            ELSE DefaultMessage(failure.status)
         /\ error.code = IF failure.data.code # "" THEN failure.data.code ELSE "HTTP_ERROR"
    /\ (failure.kind = "reject" /\ failure.reason.cls = "Error") =>
         /\ error.cls = "Shipi18nError"
         /\ IF failure.reason.name = "AbortError"
            THEN error.code = "TIMEOUT" /\ error.statusCode = 408
            ELSE error.code = "NETWORK_ERROR" /\ error.statusCode = 500
    /\ (failure.kind = "reject" /\ failure.reason.cls = "value") =>
         /\ error.cls = "Shipi18nError"
         /\ error.code = "UNKNOWN_ERROR" /\ error.statusCode = 500

\* C15: a Shipi18nError raised inside request (the HTTP_ERROR it builds
\* itself included) reaches the caller as the same error, with message,
\* statusCode and code unchanged.
C15_RethrownAsIs ==
  (pc = "threw" /\ ApiFailed /\ raised.cls = "Shipi18nError") => error = raised

C15_Witness ==
  /\ pc = "threw"
  /\ op = "translateJSON"
  /\ failure.kind = "status"
  /\ raised.cls = "Shipi18nError"
  /\ raised.made = "line289"
  /\ error = raised
  /\ error.code = "HTTP_ERROR"

\* applyFallbacks was entered: the transport answered translateJSON.
Reconciled == Ended /\ op = "translateJSON" /\ request # NoRequest /\ ~ApiFailed

\* C16: applyFallbacks never raises, whatever the decoded body and the
\* source content.
C16_NeverRaises == Reconciled => pc = "done"

\* C17 as stated: every translateJSON or translateText invocation issues
\* exactly one call to the transport.
C17_ExactlyOneCall ==
  (Ended /\ op \in {"translateJSON", "translateText"}) => calls = 1

\* C17 amended: an invocation that hands a request to the transport issues
\* exactly one call, whether the call succeeds or fails; an invocation that
\* raises before that (content is a string that is not JSON) issues none.
C17_OneCallOnceSent ==
  (op \in {"translateJSON", "translateText"}) =>
    /\ request # NoRequest => calls = 1
    /\ request = NoRequest => (calls = 0 /\ pc = "threw" /\ contentIsString)

C17_Witness ==
  /\ op = "translateJSON"
  /\ pc = "threw"
  /\ ApiFailed
  /\ regionalFallback
  /\ targetLanguages = << ptBR >>
  /\ Sent = << pt, ptBR >>
  /\ calls = 1

C20_SkipOptionsSent ==
  (op = "translateJSON" /\ request # NoRequest) =>
    /\ "skipKeys" \in DOMAIN request.body
    /\ "skipPaths" \in DOMAIN request.body
    /\ request.body.skipKeys = options.skipKeys.list
    /\ request.body.skipPaths = options.skipPaths.list

\* ------------------------------------------------------ claims C21..C30
\* C21: every entry of the response whose key is not a requested target
\* language (a base language sent only for regional fallback) is present
\* with an unchanged value in the result of translateJSON.
C21_UnrequestedUnchanged ==
  Done =>
    \A l \in DOMAIN body : ~Requested(l) => Final(l) = Raw(l)

\* The value getNestedValue finds at a path of a language's final document.
FinalAt(lang, path) ==
  IF result[lang].t = "ref" THEN getNestedValue(heap, result[lang], path) ELSE Undefined

\* The value at a path of the base-language entry as the transport returned it.
RawBaseAt(lang, path) ==
  IF lang \in DOMAIN regionalMap /\ Decoded.result[regionalMap[lang]].t = "ref"
  THEN getNestedValue(Decoded.heap, Decoded.result[regionalMap[lang]], path)
  ELSE Undefined

\* C22: every dot-path listed in keysFallback[lang] was filled: in the final
\* result the value at that path of lang's document is defined and equals
\* the base-language value or the source value at that path.
C22_ReportedKeysFilled ==
  Done =>
    \A lang \in DOMAIN fallbackInfo.keysFallback :
      \A i \in 1..Len(fallbackInfo.keysFallback[lang]) :
        LET path == fallbackInfo.keysFallback[lang][i]
            got == FinalAt(lang, path)
        IN /\ got # Undefined
           /\ \/ got = getNestedValue(heap, sourceContent, path)
              \/ got = FinalAt(BaseOf(lang), path)
              \/ Deref(heap, got) = Deref(Decoded.heap, RawBaseAt(lang, path))

\* C23: with fallbackToSource disabled, a requested language whose
\* translation is a non-empty document is returned unchanged, whatever
\* regionalFallback is, and keysFallback stays empty.
C23_NoKeyFillWithoutSourceFallback ==
  Done /\ ~fallbackToSource =>
    /\ fallbackInfo.keysFallback = EmptyFcn
    /\ \A lang \in AllTags :
         Requested(lang) /\ IsNonEmptyDoc(Raw(lang)) => Final(lang) = Raw(lang)

\* A regional language comes back with a gap its base could fill, regional
\* fallback is enabled, and the gap is still there.
C23_Witness ==
  /\ Done /\ ~fallbackToSource /\ regionalFallback
  /\ Requested(ptBR) /\ IsNonEmptyDoc(Raw(ptBR))
  /\ IsNonEmptyDoc(Raw(pt))
  /\ \E k \in DOMAIN content.kids :
       /\ k \notin DOMAIN Raw(ptBR).kids
       /\ k \in DOMAIN Raw(pt).kids
       /\ k \notin DOMAIN Final(ptBR).kids

\* The i-th target is a regional language that enters key-level filling
\* with regional fallback enabled.
KeyFillsRegional(i) ==
  LET lang == targetLanguages[i]
      before == StAfter(i - 1)
  IN /\ fallbackToSource /\ regionalFallback
     /\ lang \in DOMAIN regionalMap
     /\ ~before.threw
     /\ before.result[lang].t = "ref"
     /\ ~MissingOrEmpty(before.heap, before.result[lang])

\* What the claim prescribes for one missing path of the i-th target: the
\* base-language value when defined, else the source value when defined,
\* else the path stays as it was.
ResolvedAsPrescribed(i, path) ==
  LET lang == targetLanguages[i]
      before == StAfter(i - 1)
      after == StAfter(i)
      base == before.result[regionalMap[lang]]
      baseValue == IF Truthy(base) THEN getNestedValue(before.heap, base, path) ELSE Undefined
      sourceValue == getNestedValue(before.heap, sourceContent, path)
      was == getNestedValue(before.heap, before.result[lang], path)
      now == getNestedValue(after.heap, after.result[lang], path)
  IN now = IF baseValue # Undefined THEN baseValue
           ELSE IF sourceValue # Undefined THEN sourceValue
           ELSE was

\* C24: in key-level filling of a regional language with regionalFallback
\* enabled, each missing path is resolved on its own: the base-language
\* value is set when the base document has a defined value there, else the
\* source value when defined, else the path is left unset; no error is raised.
C24_PathsResolvedIndependently ==
  Reconciled =>
    \A i \in 1..Len(targetLanguages) :
      KeyFillsRegional(i) =>
        LET before == StAfter(i - 1)
            missing == findMissingKeys(before.heap, sourceContent,
                                       before.result[targetLanguages[i]], <<>>)
        IN /\ ~StAfter(i).threw
           /\ \A k \in 1..Len(missing) : ResolvedAsPrescribed(i, missing[k])

\* The chains of keys that lead to a member of a tree, at any depth.
RECURSIVE ChainsOf(_)
ChainsOf(tree) ==
  IF tree.t \notin {"doc", "arr"} THEN {}
  ELSE UNION { { <<k>> } \cup { <<k>> \o c : c \in ChainsOf(tree.kids[k]) } :
               k \in DOMAIN tree.kids }

\* The member a chain of keys leads to, absent when the chain breaks.
RECURSIVE ValueAt(_, _)
ValueAt(tree, chain) ==
  IF chain = <<>> THEN tree
  ELSE IF tree.t \in {"doc", "arr"} /\ Head(chain) \in DOMAIN tree.kids
       THEN ValueAt(tree.kids[Head(chain)], Tail(chain))
       ELSE TAbsent

\* The dot-path a chain of keys is written as.
RECURSIVE DotPath(_)
DotPath(chain) == IF chain = <<>> THEN <<>> ELSE Head(chain) \o DotPath(Tail(chain))

FoundMissing == SeqToSet(helper.missing)

\* C25: findMissingKeys recurses into a key only when the source value is a
\* non-array document and the candidate value is a non-null, non-array
\* document; a key whose candidate value is an array is not missing and no
\* path under it is reported.
C25_ArraysAreLeaves ==
  helper.fn = "findMissingKeys" =>
    \A k \in DOMAIN helper.source.kids :
      /\ Kid(helper.translation, k).t = "arr" => k \notin FoundMissing
      /\ \A c \in ChainsOf(helper.source.kids[k]) :
           DotPath(<<k>> \o c) \in FoundMissing /\ DotPath(<<k>> \o c) \notin DOMAIN helper.source.kids
             => /\ helper.source.kids[k].t = "doc"
                /\ Kid(helper.translation, k).t = "doc"

\* C26 as stated: every dot-path findMissingKeys returns addresses a value
\* that is present and non-empty in source and absent, null or empty in the
\* candidate; no path is reported for a source value that is null or "".
C26_PresentInSourceMissingInCandidate ==
  helper.fn = "findMissingKeys" =>
    \A path \in FoundMissing :
      \E chain \in ChainsOf(helper.source) :
        /\ DotPath(chain) = path
        /\ ~MissingValue(ValueAt(helper.source, chain))
        /\ MissingValue(ValueAt(helper.translation, chain))

\* C26 amended: every dot-path findMissingKeys returns is a chain of keys of
\* source whose value in the candidate is absent, null or empty, whatever
\* the source value is (null and "" included).
C26_KeyOfSourceMissingInCandidate ==
  helper.fn = "findMissingKeys" =>
    \A path \in FoundMissing :
      \E chain \in ChainsOf(helper.source) :
        /\ DotPath(chain) = path
        /\ MissingValue(ValueAt(helper.translation, chain))

\* A nested path is reported next to a translated sibling, and a top-level
\* path is reported for a source value that is null or "".
C26_Witness ==
  /\ helper.fn = "findMissingKeys"
  /\ <<"g", "y">> \in FoundMissing
  /\ ~MissingValue(ValueAt(helper.translation, << <<"g">>, <<"x">> >>))
  /\ <<"g", "y">> \notin DOMAIN helper.source.kids
  /\ <<"a">> \in FoundMissing
  /\ MissingValue(Kid(helper.source, <<"a">>))

\* The tree setNestedValue is said to leave for a path of one or two keys.
SetIn(tree, path, value) ==
  IF Len(path) = 1 THEN TDoc(Put(tree.kids, path, value))
  ELSE LET k == << path[1] >>
           was == Kid(tree, k)
           inner == IF was.t \in {"doc", "arr"} THEN was ELSE TDoc(EmptyFcn)
       IN TDoc(Put(tree.kids, k, [inner EXCEPT !.kids = Put(inner.kids, << path[2] >>, value)]))

\* C27: setNestedValue creates a document for every missing intermediate
\* key, replaces a scalar or null at an intermediate key with an empty
\* document, assigns the value at the final key and does not throw;
\* afterwards getNestedValue(document, path) returns the value.
C27_SetThenGet ==
  helper.fn = "setNestedValue" =>
    /\ ~helper.threw
    /\ helper.after = SetIn(helper.obj, helper.path, helper.value)
    /\ helper.got = helper.value

\* C28: in the regional map built by processRegionalLanguages every key
\* contains a hyphen, no key maps to itself, every value is the part of its
\* key before the first hyphen, and the map is empty when regionalFallback
\* is disabled.
C28_RegionalMapShape ==
  /\ \A tag \in DOMAIN regionalMap :
       /\ Len(tag) > 1
       /\ regionalMap[tag] # tag
       /\ regionalMap[tag] = << tag[1] >>
  /\ ~regionalFallback => regionalMap = EmptyFcn

\* A regional tag was requested next to its base with regional fallback
\* enabled, and the map has its entry.
C28_Witness ==
  /\ op = "translateJSON" /\ pc = "waiting"
  /\ regionalFallback
  /\ Requested(ptBR) /\ Requested(pt)
  /\ ptBR \in DOMAIN regionalMap

\* C30: translateJSON never changes the caller's source content at any
\* depth, for any response and any target list: the object the caller
\* passed still denotes the document it denoted at the call.
C30_SourceUntouched ==
  (op = "translateJSON" /\ sourceContent # Undefined) =>
    Deref(heap, sourceContent) = content

\* Whether two values reach a common object of the heap below their top level.
SharesNested(h, v, w) ==
  /\ v.t = "ref" /\ w.t = "ref"
  /\ \E k \in DOMAIN h[v.r].props, j \in DOMAIN h[w.r].props :
       h[v.r].props[k].t = "ref" /\ h[v.r].props[k] = h[w.r].props[j]

\* A returned document shares a nested object with the source and key-level
\* filling has written into returned documents.
C30_Witness ==
  /\ Done
  /\ \E lang \in AllTags : SharesNested(heap, result[lang], sourceContent)
  /\ DOMAIN fallbackInfo.keysFallback # {}

\* What invocation i returns when it runs alone on the caller's document
\* with the response it received.
Alone(i) ==
  LET inv == invocation[i]
      own == Load(<<>>, content)
      dec == LoadBody(own.heap, inv.body, inv.processedTargets, NoResult)
      out == applyFallbacks(dec.heap, dec.result, own.val, inv.targetLanguages, "en",
                            inv.fallbackToSource, inv.regionalFallback, "", inv.regionalMap)
  IN [threw |-> out.threw, seen |-> Observed(out)]

\* What invocation i returned, as its caller sees it now.
Together(i) ==
  LET inv == invocation[i]
  IN [threw |-> inv.pc = "threw",
      seen |-> Observed([heap |-> heap, result |-> inv.result, info |-> inv.fallbackInfo,
                         attached |-> inv.attached])]

\* C29: two translateJSON invocations on the same client, in flight
\* together and answered in either order, each return what they return
\* when run alone, and the client's apiKey, baseUrl and timeout stay as
\* constructed.
C29_Independent ==
  /\ client = NewClient
  /\ \A i \in Invocations :
       invocation[i].pc \in {"done", "threw"} => Together(i) = Alone(i)

\* Both invocations were in flight together, the second was answered
\* first, and both filled keys from the document they share.
C29_Witness ==
  /\ invocation[1].calledAt = 1 /\ invocation[2].calledAt = 2
  /\ invocation[2].resumedAt = 3 /\ invocation[1].resumedAt = 4
  /\ \A i \in Invocations :
       /\ invocation[i].pc = "done"
       /\ DOMAIN invocation[i].fallbackInfo.keysFallback # {}
       /\ \E lang \in AllTags : SharesNested(heap, invocation[i].result[lang], sourceContent)

====
